---- MODULE Spec2Model ----
(***************************************************************************)
(* A model of src/f5_tts/infer/infer_gradio_with_normalizer_old.py: the    *)
(* style-script parser, the multi-style orchestrator, the inference        *)
(* dispatcher and the model selector with its persisted custom record.     *)
(*                                                                         *)
(* A Python string is a sequence of atoms.  An atom is one character       *)
(* ("{", "}", " ", "\n", "a", ...) or a word ("Regular", "m1", ...) that   *)
(* stands for the run of letters it spells; no word holds a brace or a     *)
(* white-space character, so strip, split and comparison act on atoms as   *)
(* they act on characters.                                                 *)
(***************************************************************************)
EXTENDS Integers, Sequences, FiniteSets, TLC

VARIABLES
    \* process-wide state of the module
    USING_SPACES,        \* lines 17-21
    tts_model_choice,    \* line 42
    F5TTS_ema_model,     \* line 91
    E2TTS_ema_model,     \* line 92
    custom_ema_model,    \* line 93
    pre_custom_path,     \* line 93
    last_used_custom,    \* the file of line 755
    \* what the handler that ran last did
    handler,             \* its name
    arg,                 \* its arguments
    outcome,             \* "ok", or the exception it raised
    ret,                 \* what it returned
    messages,            \* gr.Warning / gr.Info / print, in order
    infer_calls,         \* the calls of infer it made, in order
    engine_calls,        \* the calls of infer_process, in order
    loads,               \* the checkpoints it loaded, in order
    \* generate_multistyle_speech: its arguments and locals
    pc,
    gen_text,
    rows,
    normaliser_choice,
    remove_silence,
    speech_types,
    segments,
    seg_idx,
    generated_audio_segments,
    \* the voice chat
    chat_model_state,    \* line 94
    conversation_state,  \* the gr.State of lines 682-689
    chatbot_interface    \* the gr.Chatbot of line 673

globals == << USING_SPACES, tts_model_choice, F5TTS_ema_model, E2TTS_ema_model,
              custom_ema_model, pre_custom_path, last_used_custom >>

trace == << handler, arg, outcome, ret, messages, infer_calls, engine_calls, loads >>

locals == << pc, gen_text, rows, normaliser_choice, remove_silence,
             speech_types, segments, seg_idx, generated_audio_segments >>

chat == << chat_model_state, conversation_state, chatbot_interface >>

vars == << globals, trace, locals, chat >>

----------------------------------------------------------------------------
(* Strings *)

\* the white space str.strip() removes; the two stand for all of it
WS == {" ", "\n"}

\* the atoms of the scripts the parser is checked on
Alphabet == {"{", "}", " ", "\n", "a", "b"}

\* longest script of the parser's specification
MaxLen == 5

RECURSIVE StringsUpTo(_, _)
StringsUpTo(A, n) ==
    IF n = 0 THEN {<<>>}
    ELSE LET shorter == StringsUpTo(A, n - 1)
         IN  shorter \cup {Append(s, c) : s \in {t \in shorter : Len(t) = n - 1}, c \in A}

RECURSIVE LStrip(_)
LStrip(s) == IF s # <<>> /\ Head(s) \in WS THEN LStrip(Tail(s)) ELSE s

RECURSIVE RStrip(_)
RStrip(s) ==
    IF s # <<>> /\ s[Len(s)] \in WS THEN RStrip(SubSeq(s, 1, Len(s) - 1)) ELSE s

\* str.strip()
Strip(s) == RStrip(LStrip(s))

----------------------------------------------------------------------------
(* The style-script parser, lines 272-283 *)

\* current_style = "Regular", line 276
Regular == <<"Regular">>

\* where the lazy .*? of \{(.*?)\} stops when the match began just before j:
\* the index of the first "}" from j on, or 0 when the text ends or a line
\* break ("." does not match it) comes first
RECURSIVE MatchEnd(_, _)
MatchEnd(s, j) ==
    IF j > Len(s) THEN 0
    ELSE IF s[j] = "}" THEN j
    ELSE IF s[j] = "\n" THEN 0
    ELSE MatchEnd(s, j + 1)

\* re.split from position i on, the pending text token starting at start:
\* the leftmost match is cut out, its group follows the text before it
RECURSIVE ReSplitFrom(_, _, _)
ReSplitFrom(s, start, i) ==
    IF i > Len(s) THEN << SubSeq(s, start, Len(s)) >>
    ELSE IF s[i] = "{" /\ MatchEnd(s, i + 1) # 0
         THEN LET j == MatchEnd(s, i + 1)
              IN  << SubSeq(s, start, i - 1), SubSeq(s, i + 1, j - 1) >>
                      \o ReSplitFrom(s, j + 1, j + 1)
         ELSE ReSplitFrom(s, start, i + 1)

\* tokens = re.split(r"\{(.*?)\}", gen_text), line 274
ReSplit(s) == ReSplitFrom(s, 1, 1)

SegmentTextRaw(tok) == tok

\* text = tokens[i].strip(), line 279
SegmentText(tok) == Strip(tok)

KeepAnyText(text) == TRUE

\* if text:, line 280
KeepText(text) == text # <<>>

LabelStyleRaw(tok) == tok

\* current_style = tokens[i].strip(), line 283
LabelStyle(tok) == Strip(tok)

\* the loop of lines 277-283 from index i (0-based, as in the code) on
RECURSIVE ParseLoop(_, _, _, _)
ParseLoop(tokens, i, current_style, segs) ==
    IF i >= Len(tokens) THEN segs
    ELSE IF i % 2 = 0
         THEN LET text == SegmentText(tokens[i + 1])
              IN  ParseLoop(tokens, i + 1, current_style,
                            IF KeepText(text)
                            THEN Append(segs, [style |-> current_style, text |-> text])
                            ELSE segs)
         ELSE ParseLoop(tokens, i + 1, LabelStyle(tokens[i + 1]), segs)

\* lines 273-283: the segments of a script
ParseScript(s) == ParseLoop(ReSplit(s), 0, Regular, <<>>)

----------------------------------------------------------------------------
(* Model variants, checkpoints and the persisted custom record *)

\* DEFAULT_TTS_MODEL, line 41
DEFAULT_TTS_MODEL == "F5-TTS_v1"

\* all_tts_choices, line 62
all_tts_choices == {DEFAULT_TTS_MODEL, "E2-TTS", "Custom"}

\* the choices of the radio, lines 387-398
RadioChoices(spaces) == IF spaces THEN {DEFAULT_TTS_MODEL, "E2-TTS"} ELSE all_tts_choices

\* DEFAULT_TTS_MODEL_CFG, lines 44-48; "d" is the member list of the dict
DEFAULT_TTS_MODEL_CFG ==
    << <<"hf://", "F5TTS_v1_Base/model">>, <<"hf://", "F5TTS_v1_Base/vocab">>,
       <<"{", "d", "}">> >>

\* the member lists a config may hold
Members == {"d", "e"}

RECURSIVE RemoveWs(_)
RemoveWs(s) ==
    IF s = <<>> THEN <<>>
    ELSE IF Head(s) \in WS THEN RemoveWs(Tail(s))
    ELSE <<Head(s)>> \o RemoveWs(Tail(s))

\* a json.loads that raises on nothing
AcceptsAll(s) == TRUE

\* whether json.loads accepts s: an object, white space between its tokens
IsJson(s) ==
    LET t == RemoveWs(s)
    IN  \/ t = <<"{", "}">>
        \/ Len(t) = 3 /\ t[1] = "{" /\ t[2] \in Members /\ t[3] = "}"

\* json.loads(s) of an s it accepts: the dict, named by its member list
JsonLoads(s) == LET t == RemoveWs(s) IN [dict |-> SubSeq(t, 2, Len(t) - 1)]

\* cached_path: an hf:// locator resolves to a path of the local cache
CachedPath(p) ==
    IF p # <<>> /\ Head(p) = "hf://" THEN <<"cache/">> \o Tail(p) ELSE p

\* None, for a model handle
NoModel == [cls |-> "None"]

\* load_model(cls, cfg, ckpt, vocab_file): the handle of what was loaded
LoadModel(cls, cfg, ckpt, vocab) == [cls |-> cls, cfg |-> cfg, ckpt |-> ckpt, vocab |-> vocab]

\* load_f5tts, lines 68-71
load_f5tts ==
    LoadModel("DiT", JsonLoads(DEFAULT_TTS_MODEL_CFG[3]), CachedPath(DEFAULT_TTS_MODEL_CFG[1]), <<>>)

\* load_e2tts, lines 74-77; "e2" is the member list of E2TTS_model_cfg
load_e2tts ==
    LoadModel("UNetT", [dict |-> <<"e2">>], CachedPath(<<"hf://", "E2TTS_Base/model">>), <<>>)

\* load_custom, lines 80-88 (model_cfg is never None at its one call)
load_custom(ckpt_path, vocab_path, model_cfg) ==
    LoadModel("DiT", model_cfg, CachedPath(Strip(ckpt_path)), CachedPath(Strip(vocab_path)))

\* the file of line 755 when it does not exist
NoFile == [exists |-> FALSE, text |-> <<>>]

FileOf(text) == [exists |-> TRUE, text |-> text]

\* the lines a text file iterates over, each with its line break
RECURSIVE FileLinesFrom(_, _)
FileLinesFrom(text, line) ==
    IF text = <<>> THEN (IF line = <<>> THEN <<>> ELSE <<line>>)
    ELSE IF Head(text) = "\n"
         THEN <<Append(line, "\n")>> \o FileLinesFrom(Tail(text), <<>>)
         ELSE FileLinesFrom(Tail(text), Append(line, Head(text)))

\* load_last_used_custom, lines 756-765
load_last_used_custom(file) ==
    IF file.exists
    THEN LET raw == FileLinesFrom(file.text, <<>>)
         IN  [i \in 1..Len(raw) |-> Strip(raw[i])]
    ELSE DEFAULT_TTS_MODEL_CFG

\* what line 781 writes
RecordText(ckpt, vocab, cfg) == ckpt \o <<"\n">> \o vocab \o <<"\n">> \o cfg \o <<"\n">>

\* a model choice: a built-in name, or the list of lines 772 and 779
Builtin(name) == [name |-> name]

Custom(ckpt, vocab, cfg) == [name |-> "Custom", ckpt |-> ckpt, vocab |-> vocab, cfg |-> cfg]

----------------------------------------------------------------------------
(* The normaliser plug-in, lines 199-215 and 248-259, 296-297 *)

\* the normaliser choices: none, a directory without normaliser.py, a module
\* without normalize, and two modules with one
NormaliserChoices == {"None", "missing", "nofunc", "swap", "erase"}

\* os.path.exists(normaliser_file), lines 201 and 251
NormaliserFileExists(choice) == choice \in {"nofunc", "swap", "erase"}

\* hasattr(normaliser_module, "normalize"), lines 206 and 296
HasNormalize(choice) == choice \in {"swap", "erase"}

RECURSIVE SwapLetters(_)
SwapLetters(s) ==
    IF s = <<>> THEN <<>>
    ELSE << CASE Head(s) = "a" -> "b" [] Head(s) = "b" -> "a" [] OTHER -> Head(s) >>
             \o SwapLetters(Tail(s))

\* normaliser_module.normalize(text) of the two plug-ins: one rewrites the
\* letters, one keeps nothing of the text
Normalize(choice, text) == IF choice = "swap" THEN SwapLetters(text) ELSE <<>>

----------------------------------------------------------------------------
(* The inference dispatcher, lines 121-185 *)

Msg(kind, text, about) == [kind |-> kind, text |-> text, arg |-> about]

\* gr.update()
GrUpdate == [kind |-> "update"]

\* preprocess_ref_audio_text: the clipped audio, and the reference text,
\* transcribed from the audio when none is given
PreRefAudio(audio) == <<"clip", audio>>

PreRefText(audio, ref_text) == IF Strip(ref_text) = <<>> THEN <<"asr", audio>> ELSE ref_text

\* infer_process: the waveform, one chunk that records what it was made from
InferProcess(ref_audio, ref_text, text, ema_model) ==
    << [ref_audio |-> ref_audio, ref_text |-> ref_text, gen_text |-> text,
        model |-> ema_model, trimmed |-> FALSE] >>

\* remove_silence_for_generated_wav, lines 173-178
RemoveSilence(wave) == [i \in 1..Len(wave) |-> [wave[i] EXCEPT !.trimmed = TRUE]]

\* the first check of infer, line 132
MissingRefAudio(ref_audio_orig) == ref_audio_orig = <<>>

\* the second check of infer, line 136
EmptyOnlyText(text) == text = <<>>

BlankGenText(text) == Strip(text) = <<>>

\* the cache test of line 153
CustomNeverCached(pre, model) == TRUE

CustomNotCached(pre, model) == pre # model.ckpt

\* the cache test of line 146
E2NotCached(e2) == e2 = NoModel

\* the model selection of lines 142-157 on the globals g = [f5, e2, custom,
\* pre, spaces]: the handle used, the globals after it, what was loaded and
\* announced, and the assertion of line 151
SelectModel(model, g, show_info) ==
    IF model.name = DEFAULT_TTS_MODEL
    THEN [exc |-> "none", ema |-> g.f5, g |-> g, loads |-> <<>>, msgs |-> <<>>]
    ELSE IF model.name = "E2-TTS"
    THEN IF E2NotCached(g.e2)
         THEN [exc |-> "none", ema |-> load_e2tts, g |-> [g EXCEPT !.e2 = load_e2tts],
               loads |-> <<load_e2tts>>,
               msgs |-> <<Msg(show_info, "Loading E2-TTS model...", <<>>)>>]
         ELSE [exc |-> "none", ema |-> g.e2, g |-> g, loads |-> <<>>, msgs |-> <<>>]
    ELSE IF g.spaces
    THEN [exc |-> "AssertionError", ema |-> NoModel, g |-> g, loads |-> <<>>, msgs |-> <<>>]
    ELSE IF CustomNotCached(g.pre, model)
    THEN LET m == load_custom(model.ckpt, model.vocab, model.cfg)
         IN  [exc |-> "none", ema |-> m,
              g |-> [g EXCEPT !.custom = m, !.pre = model.ckpt],
              loads |-> <<m>>,
              msgs |-> <<Msg(show_info, "Loading Custom TTS model...", <<>>)>>]
    ELSE [exc |-> "none", ema |-> g.custom, g |-> g, loads |-> <<>>, msgs |-> <<>>]

\* infer, lines 121-185: what it returns (audio_out, spectrogram, ref_text),
\* the exception it raises, and what it did on the way
Infer(ref_audio_orig, ref_text, text, model, rs, cross_fade, show_info, g) ==
    LET nothing == [exc |-> "none", audio_out |-> GrUpdate, spectrogram |-> GrUpdate,
                    ref_text |-> ref_text, g |-> g, loads |-> <<>>, engine |-> <<>>,
                    msgs |-> <<>>]
    IN
    IF MissingRefAudio(ref_audio_orig)
    THEN [nothing EXCEPT !.msgs = <<Msg("warning", "Please provide reference audio.", <<>>)>>]
    ELSE IF BlankGenText(text)
    THEN [nothing EXCEPT !.msgs = <<Msg("warning", "Please enter text to generate.", <<>>)>>]
    ELSE
    LET ref_audio == PreRefAudio(ref_audio_orig)
        ref_text2 == PreRefText(ref_audio_orig, ref_text)
        sel       == SelectModel(model, g, show_info)
        wave      == InferProcess(ref_audio, ref_text2, text, sel.ema)
        final     == IF rs THEN RemoveSilence(wave) ELSE wave
    IN
    IF sel.exc # "none"
    THEN [nothing EXCEPT !.exc = sel.exc]
    ELSE [exc |-> "none",
          audio_out |-> [kind |-> "audio", wave |-> final],
          spectrogram |-> [kind |-> "png"],
          ref_text |-> ref_text2,
          g |-> sel.g, loads |-> sel.loads,
          engine |-> << [ref_audio |-> ref_audio, ref_text |-> ref_text2, gen_text |-> text,
                         model |-> sel.ema, cross_fade |-> cross_fade] >>,
          msgs |-> sel.msgs]

\* the globals infer reads and writes
G == [f5 |-> F5TTS_ema_model, e2 |-> E2TTS_ema_model, custom |-> custom_ema_model,
      pre |-> pre_custom_path, spaces |-> USING_SPACES]

\* one call of infer, as its caller sees it made
Call(ref_audio, ref_text, text, model) ==
    [ref_audio |-> ref_audio, ref_text |-> ref_text, gen_text |-> text, model |-> model]

----------------------------------------------------------------------------
(* Start-up *)

\* the record an earlier run of the process may have left
EarlierRecord == RecordText(<<"m1">>, <<"v1">>, <<"{", "d", "}">>)

\* the file of line 755 as the process may find it: absent, written by an
\* earlier run, or left empty by a run that was stopped between the open of
\* line 780 and the write of line 781
InitialFiles == {NoFile, FileOf(EarlierRecord), FileOf(<<>>)}

NoReturn == [kind |-> "none"]

\* lines 42 and 91-93: the module's globals once it is imported
InitGlobals ==
    /\ USING_SPACES \in BOOLEAN
    /\ tts_model_choice = Builtin(DEFAULT_TTS_MODEL)
    /\ F5TTS_ema_model = load_f5tts
    /\ E2TTS_ema_model = IF USING_SPACES THEN load_e2tts ELSE NoModel
    /\ custom_ema_model = NoModel
    /\ pre_custom_path = <<>>
    /\ last_used_custom \in InitialFiles

InitTrace ==
    /\ handler = "startup"
    /\ arg = <<>>
    /\ outcome = "ok"
    /\ ret = NoReturn
    /\ messages = <<>>
    /\ infer_calls = <<>>
    /\ engine_calls = <<>>
    /\ loads = IF USING_SPACES THEN <<load_f5tts, load_e2tts>> ELSE <<load_f5tts>>

\* the system prompt of lines 684-687 and 355-360
DefaultPrompt == <<"You are not an AI assistant">>

\* a message of the transcript
Message(role, content) == [role |-> role, content |-> content]

\* None, for the chat model
NoChatModel == [name |-> "None"]

\* AutoModelForCausalLM.from_pretrained and AutoTokenizer.from_pretrained,
\* lines 638-643 and 649-651
QwenChatModel == [name |-> "Qwen/Qwen2.5-3B-Instruct"]

\* lines 94, 648-651, 673 and 682-689: the chat model is loaded while the
\* interface is built in Spaces only; the transcript holds the system
\* prompt and the chat window is empty
InitChat ==
    /\ chat_model_state = IF USING_SPACES THEN QwenChatModel ELSE NoChatModel
    /\ conversation_state = <<Message("system", DefaultPrompt)>>
    /\ chatbot_interface = <<>>

\* no multi-style request is being handled
IdleLocals ==
    /\ pc = "idle"
    /\ gen_text = <<>>
    /\ rows = <<>>
    /\ normaliser_choice = "None"
    /\ remove_silence = FALSE
    /\ speech_types = <<>>
    /\ segments = <<>>
    /\ seg_idx = 0
    /\ generated_audio_segments = <<>>

----------------------------------------------------------------------------
(* The model selector, lines 766-781, and basic_tts, lines 189-228 *)

\* what the user may put into the three custom fields: two records that
\* share a checkpoint, a path typed with a leading blank, a config spread
\* over two lines, and a config that is no JSON
CustomInputs ==
    { << <<"m1">>, <<"v1">>, <<"{", "d", "}">> >>,
      << <<"m1">>, <<"v2">>, <<"{", "e", "}">> >>,
      << <<" ", "m2">>, <<"v1">>, <<"{", "d", "}">> >>,
      << <<"m1">>, <<"v1">>, <<"{", "\n", "}">> >>,
      << <<"m1">>, <<"v1">>, <<"{">> >> }

\* what basic_tts may be given
RefAudioInputs == {<<>>, <<"w">>}

GenTextInputs == {<<" ">>, <<"a">>}

RefTextInputs == {<<>>, <<"t">>}

SetGlobals(g) ==
    /\ E2TTS_ema_model' = g.e2
    /\ custom_ema_model' = g.custom
    /\ pre_custom_path' = g.pre
    /\ UNCHANGED << USING_SPACES, F5TTS_ema_model >>

\* lines 199-215: the text basic_tts hands on, and what it prints
BasicProcessedText(choice, text) ==
    IF choice # "None" /\ NormaliserFileExists(choice) /\ HasNormalize(choice)
    THEN Normalize(choice, text)
    ELSE text

BasicPrints(choice) ==
    IF choice = "None" THEN <<>>
    ELSE IF ~NormaliserFileExists(choice)
    THEN <<Msg("print", "normaliser.py not found, using the original text", <<>>)>>
    ELSE IF ~HasNormalize(choice)
    THEN <<Msg("print", "normaliser.py has no normalize, using the original text", <<>>)>>
    ELSE <<>>

\* basic_tts, lines 189-228
BasicTts(ref_audio, ref_text, text, rs, choice) ==
    LET processed_text == BasicProcessedText(choice, text)
    IN  \E r \in {Infer(ref_audio, ref_text, processed_text, tts_model_choice, rs,
                        "slider", "info", G)} :
        /\ pc = "idle"
        /\ handler' = "basic_tts"
        /\ arg' = <<ref_audio, ref_text, text, choice>>
        /\ outcome' = IF r.exc = "none" THEN "ok" ELSE r.exc
        /\ ret' = IF r.exc = "none"
                  THEN [kind |-> "basic_tts", audio_out |-> r.audio_out,
                        spectrogram |-> r.spectrogram, ref_text |-> r.ref_text]
                  ELSE NoReturn
        /\ messages' = BasicPrints(choice) \o r.msgs
        /\ infer_calls' = <<Call(ref_audio, ref_text, processed_text, tts_model_choice)>>
        /\ engine_calls' = r.engine
        /\ loads' = r.loads
        /\ SetGlobals(r.g)
        /\ UNCHANGED << tts_model_choice, last_used_custom, locals, chat >>

\* switch_tts_model, lines 766-776
SwitchTtsModel(new_choice) ==
    LET custom == load_last_used_custom(last_used_custom)
    IN  /\ pc = "idle"
        /\ new_choice \in RadioChoices(USING_SPACES)
        /\ handler' = "switch_tts_model"
        /\ arg' = <<new_choice>>
        /\ messages' = <<>>
        /\ infer_calls' = <<>>
        /\ engine_calls' = <<>>
        /\ loads' = <<>>
        /\ IF new_choice = "Custom"
           THEN IF Len(custom) < 3
                THEN /\ outcome' = "IndexError"
                     /\ ret' = NoReturn
                     /\ UNCHANGED tts_model_choice
                ELSE IF ~IsJson(custom[3])
                THEN /\ outcome' = "JSONDecodeError"
                     /\ ret' = NoReturn
                     /\ UNCHANGED tts_model_choice
                ELSE /\ outcome' = "ok"
                     /\ ret' = [kind |-> "fields", visible |-> TRUE, ckpt |-> custom[1],
                                vocab |-> custom[2], cfg |-> custom[3]]
                     /\ tts_model_choice' = Custom(custom[1], custom[2], JsonLoads(custom[3]))
           ELSE /\ outcome' = "ok"
                /\ ret' = [kind |-> "fields", visible |-> FALSE]
                /\ tts_model_choice' = Builtin(new_choice)
        /\ UNCHANGED << USING_SPACES, F5TTS_ema_model, E2TTS_ema_model, custom_ema_model,
                        pre_custom_path, last_used_custom, locals, chat >>

\* set_custom_model, lines 777-781
SetCustomModel(ckpt, vocab, cfg) ==
    /\ pc = "idle"
    /\ handler' = "set_custom_model"
    /\ arg' = <<ckpt, vocab, cfg>>
    /\ messages' = <<>>
    /\ infer_calls' = <<>>
    /\ engine_calls' = <<>>
    /\ loads' = <<>>
    /\ ret' = NoReturn
    /\ IF IsJson(cfg)
       THEN /\ outcome' = "ok"
            /\ tts_model_choice' = Custom(ckpt, vocab, JsonLoads(cfg))
            /\ last_used_custom' = FileOf(RecordText(ckpt, vocab, cfg))
       ELSE /\ outcome' = "JSONDecodeError"
            /\ UNCHANGED << tts_model_choice, last_used_custom >>
    /\ UNCHANGED << USING_SPACES, F5TTS_ema_model, E2TTS_ema_model, custom_ema_model,
                    pre_custom_path, locals, chat >>

Init == InitGlobals /\ InitTrace /\ IdleLocals /\ InitChat

Next ==
    \/ \E a \in RefAudioInputs, t \in RefTextInputs, x \in GenTextInputs,
          n \in NormaliserChoices : BasicTts(a, t, x, FALSE, n)
    \/ \E c \in all_tts_choices : SwitchTtsModel(c)
    \/ \E i \in CustomInputs : SetCustomModel(i[1], i[2], i[3])

Spec == Init /\ [][Next]_vars

----------------------------------------------------------------------------
(* generate_multistyle_speech, lines 232-315 *)

\* the speech-type rows of the model; max_speech_types of lines 242 and 524
\* is 100
MaxSpeechTypes == 2

\* f"@{ref_text_idx}@", line 269
Placeholder(idx) == <<"@", ToString(idx), "@">>

\* the position of key k in the ordered dict d, or 0
KeyIndex(d, k) ==
    IF \E i \in 1..Len(d) : d[i].key = k
    THEN CHOOSE i \in 1..Len(d) : d[i].key = k
    ELSE 0

HasKey(d, k) == KeyIndex(d, k) # 0

\* d[k] = v of an OrderedDict: a new key goes last, an old one keeps its place
DictSet(d, k, audio, ref_text) ==
    LET e == [key |-> k, audio |-> audio, ref_text |-> ref_text]
    IN  IF HasKey(d, k) THEN [d EXCEPT ![KeyIndex(d, k)] = e] ELSE Append(d, e)

\* the loop of lines 263-270 from row i (1-based) on
RECURSIVE BuildSpeechTypes(_, _, _)
BuildSpeechTypes(rs, i, d) ==
    IF i > Len(rs) THEN d
    ELSE IF rs[i].name # <<>> /\ rs[i].audio # <<>>
         THEN BuildSpeechTypes(rs, i + 1, DictSet(d, rs[i].name, rs[i].audio, rs[i].ref_text))
         ELSE BuildSpeechTypes(rs, i + 1, DictSet(d, Placeholder(i - 1), <<>>, <<>>))

\* [speech_types[style]["ref_text"] for style in speech_types]
RefTextsOf(d) == [i \in 1..Len(d) |-> d[i].ref_text]

\* None, for the audio output
NoneAudio == [kind |-> "None"]

MultiReturn(audio, d) == [kind |-> "multistyle", audio |-> audio, ref_texts |-> RefTextsOf(d)]

\* lines 248-259: whether normaliser_module is a module
NormaliserModuleLoaded(choice) == choice # "None" /\ NormaliserFileExists(choice)

\* lines 296-297
MultiProcessedText(choice, text) ==
    IF NormaliserModuleLoaded(choice) /\ HasNormalize(choice)
    THEN Normalize(choice, text)
    ELSE text

\* lines 290-294: the speech type a segment's style resolves to
ResolveStyle(d, style) == IF HasKey(d, style) THEN style ELSE Regular

\* lines 242-283: the arguments are unpacked, the speech types built and the
\* script parsed
MsSetup ==
    /\ pc = "start"
    /\ pc' = "loop"
    /\ speech_types' = BuildSpeechTypes(rows, 1, <<>>)
    /\ segments' = ParseScript(gen_text)
    /\ seg_idx' = 0
    /\ generated_audio_segments' = <<>>
    /\ handler' = "generate_multistyle_speech"
    /\ arg' = <<gen_text, rows, remove_silence, normaliser_choice>>
    /\ outcome' = "running"
    /\ ret' = NoReturn
    /\ messages' = <<>>
    /\ infer_calls' = <<>>
    /\ engine_calls' = <<>>
    /\ loads' = <<>>
    /\ UNCHANGED << globals, chat, gen_text, rows, normaliser_choice, remove_silence >>

\* lines 286-309: the loop body for the segment at seg_idx (0-based)
MsSegment ==
    /\ pc = "loop"
    /\ seg_idx < Len(segments)
    /\ LET style == segments[seg_idx + 1].style
           current_style == ResolveStyle(speech_types, style)
           warn == IF HasKey(speech_types, style) THEN <<>>
                   ELSE <<Msg("warning", "Type is not available, using Regular as default.", style)>>
           text == MultiProcessedText(normaliser_choice, segments[seg_idx + 1].text)
       IN  IF ~HasKey(speech_types, current_style)
           THEN \* the KeyError of line 299 is caught
                /\ pc' = "done"
                /\ outcome' = "ok"
                /\ ret' = MultiReturn(NoneAudio, speech_types)
                /\ messages' = messages \o warn \o
                       <<Msg("warning", "Please provide reference audio for type", current_style)>>
                /\ UNCHANGED << globals, infer_calls, engine_calls, loads, speech_types,
                                seg_idx, generated_audio_segments >>
           ELSE LET e == speech_types[KeyIndex(speech_types, current_style)]
                IN  \E r \in {Infer(e.audio, e.ref_text, text, tts_model_choice,
                                    remove_silence, "0", "print", G)} :
                    /\ infer_calls' = Append(infer_calls,
                                             Call(e.audio, e.ref_text, text, tts_model_choice))
                    /\ engine_calls' = engine_calls \o r.engine
                    /\ loads' = loads \o r.loads
                    /\ messages' = messages \o warn \o r.msgs
                    /\ SetGlobals(r.g)
                    /\ UNCHANGED << tts_model_choice, last_used_custom >>
                    /\ IF r.exc # "none"
                       THEN /\ pc' = "done"
                            /\ outcome' = r.exc
                            /\ UNCHANGED << ret, speech_types, seg_idx, generated_audio_segments >>
                       ELSE IF r.audio_out.kind # "audio"
                       THEN \* sr, audio_data = audio_out, line 307, of a gr.update()
                            /\ pc' = "done"
                            /\ outcome' = "ValueError"
                            /\ UNCHANGED << ret, speech_types, seg_idx, generated_audio_segments >>
                       ELSE /\ generated_audio_segments' =
                                   Append(generated_audio_segments, r.audio_out.wave)
                            /\ speech_types' = DictSet(speech_types, current_style, e.audio, r.ref_text)
                            /\ seg_idx' = seg_idx + 1
                            /\ UNCHANGED << pc, outcome, ret >>
    /\ UNCHANGED << handler, arg, chat >>
    /\ UNCHANGED << gen_text, rows, normaliser_choice, remove_silence, segments >>

RECURSIVE Concatenate(_)
\* np.concatenate
Concatenate(waves) == IF waves = <<>> THEN <<>> ELSE Head(waves) \o Concatenate(Tail(waves))

\* lines 310-315
MsFinish ==
    /\ pc = "loop"
    /\ seg_idx = Len(segments)
    /\ pc' = "done"
    /\ outcome' = "ok"
    /\ IF generated_audio_segments # <<>>
       THEN /\ ret' = MultiReturn([kind |-> "audio", wave |-> Concatenate(generated_audio_segments)],
                                  speech_types)
            /\ UNCHANGED messages
       ELSE /\ ret' = MultiReturn(NoneAudio, speech_types)
            /\ messages' = Append(messages, Msg("warning", "No audio generated.", <<>>))
    /\ UNCHANGED << globals, chat, handler, arg, infer_calls, engine_calls, loads, gen_text, rows,
                    normaliser_choice, remove_silence, speech_types, segments, seg_idx,
                    generated_audio_segments >>

\* the names a speech-type row may carry
NameInputs == {<<>>, Regular, <<"A">>}

\* the reference text typed into row i: none in the first row
RowRefText(i) == IF i = 1 THEN <<>> ELSE <<"t", ToString(i)>>

\* what row i may hold: no name, or a name with or without the row's audio
RowInputs(i) ==
    {[name |-> <<>>, audio |-> <<>>, ref_text |-> RowRefText(i)]} \cup
    [name : NameInputs \ {<<>>}, audio : {<<>>, <<"w", ToString(i)>>}, ref_text : {RowRefText(i)}]

\* the pieces the scripts of the multi-style requests are made of
Pieces ==
    { <<"a">>,
      <<"{", "Regular", "}", "a">>,
      <<"{", " ", "A", "}", "b", " ">>,
      <<"{", "@", "0", "@", "}", "a">> }

\* most pieces of a script
MaxPieces == 2

RECURSIVE ScriptsUpTo(_)
ScriptsUpTo(n) ==
    IF n = 0 THEN {<<>>}
    ELSE LET shorter == ScriptsUpTo(n - 1)
         IN  shorter \cup {s \o q : s \in shorter, q \in Pieces}

\* the model choices a multi-style request may find
MultiChoices == {Builtin(DEFAULT_TTS_MODEL), Builtin("E2-TTS")}

\* a request as the button of line 591 makes it, the process outside Spaces
InitMulti ==
    /\ USING_SPACES = FALSE
    /\ tts_model_choice \in MultiChoices
    /\ F5TTS_ema_model = load_f5tts
    /\ E2TTS_ema_model = NoModel
    /\ custom_ema_model = NoModel
    /\ pre_custom_path = <<>>
    /\ last_used_custom = NoFile
    /\ InitTrace
    /\ InitChat
    /\ pc = "start"
    /\ gen_text \in ScriptsUpTo(MaxPieces)
    /\ rows \in {r \in [1..MaxSpeechTypes -> UNION {RowInputs(i) : i \in 1..MaxSpeechTypes}] :
                   \A i \in 1..MaxSpeechTypes : r[i] \in RowInputs(i)}
    /\ normaliser_choice \in NormaliserChoices
    /\ remove_silence = TRUE
    /\ speech_types = <<>>
    /\ segments = <<>>
    /\ seg_idx = 0
    /\ generated_audio_segments = <<>>

NextMulti == MsSetup \/ MsSegment \/ MsFinish

SpecMulti == InitMulti /\ [][NextMulti]_vars

----------------------------------------------------------------------------
(* The parser on its own *)

InitParse ==
    /\ InitGlobals
    /\ USING_SPACES = FALSE
    /\ last_used_custom = NoFile
    /\ InitTrace
    /\ InitChat
    /\ pc = "script"
    /\ gen_text \in StringsUpTo(Alphabet, MaxLen)
    /\ rows = <<>>
    /\ normaliser_choice = "None"
    /\ remove_silence = FALSE
    /\ speech_types = <<>>
    /\ segments = <<>>
    /\ seg_idx = 0
    /\ generated_audio_segments = <<>>

\* lines 273-283 applied to the script
Parse ==
    /\ pc = "script"
    /\ pc' = "parsed"
    /\ segments' = ParseScript(gen_text)
    /\ UNCHANGED << globals, trace, chat, gen_text, rows, normaliser_choice, remove_silence,
                    speech_types, seg_idx, generated_audio_segments >>

SpecParse == InitParse /\ [][Parse]_vars

----------------------------------------------------------------------------
(* The voice chat, lines 319-365 and 630-737 *)

\* the most messages a transcript of the model grows to
MaxTranscript == 5

\* what the microphone and the message box may hold
ChatAudioInputs == {<<>>, <<"mic">>}

ChatTextInputs == {<<>>, <<" ">>, <<"a">>}

\* the system prompts the user may type
PromptInputs == {DefaultPrompt, <<"p1">>}

\* what generate_response may answer to the transcript: a text, or nothing
Replies(conv) == {<<>>, <<"reply", ToString(Len(conv))>>}

\* load_chat_model, lines 634-645; the button exists outside Spaces only
LoadChatModel ==
    /\ pc = "idle"
    /\ ~USING_SPACES
    /\ handler' = "load_chat_model"
    /\ arg' = <<>>
    /\ outcome' = "ok"
    /\ ret' = [kind |-> "chat_interface", visible |-> TRUE]
    /\ messages' = IF chat_model_state = NoChatModel
                   THEN <<Msg("info", "Loading chat model...", <<>>),
                          Msg("info", "Chat model loaded.", <<>>)>>
                   ELSE <<>>
    /\ chat_model_state' = QwenChatModel
    /\ infer_calls' = <<>>
    /\ engine_calls' = <<>>
    /\ loads' = <<>>
    /\ UNCHANGED << globals, locals, conversation_state, chatbot_interface >>

\* what process_audio_input returns, line 322, 325 and 331
ChatReturn(history, conv_state) ==
    [kind |-> "chat", history |-> history, conv_state |-> conv_state, text |-> <<>>]

\* process_audio_input, lines 319-331, the first handler of the three chat
\* events of lines 690-728. conv_state is the list the session holds, so
\* what is appended to it stays when generate_response raises; history is
\* the copy the event was sent with and reaches the chat window with the
\* return value only. With no chat model, generate_response raises at the
\* None tokenizer (line 102).
ProcessAudioInput(audio_path, text) ==
    LET text2 == IF audio_path # <<>> THEN PreRefText(audio_path, text) ELSE text
        user == Message("user", text2)
    IN  /\ pc = "idle"
        /\ pc' = "then"
        /\ handler' = "process_audio_input"
        /\ arg' = <<audio_path, text>>
        /\ messages' = <<>>
        /\ infer_calls' = <<>>
        /\ engine_calls' = <<>>
        /\ loads' = <<>>
        /\ IF (audio_path = <<>> /\ Strip(text) = <<>>) \/ Strip(text2) = <<>>
           THEN /\ outcome' = "ok"
                /\ ret' = ChatReturn(chatbot_interface, conversation_state)
                /\ UNCHANGED << conversation_state, chatbot_interface >>
           ELSE /\ Len(conversation_state) < MaxTranscript
                /\ IF chat_model_state = NoChatModel
                   THEN /\ outcome' = "AttributeError"
                        /\ ret' = NoReturn
                        /\ conversation_state' = Append(conversation_state, user)
                        /\ UNCHANGED chatbot_interface
                   ELSE \E response \in Replies(Append(conversation_state, user)) :
                        /\ outcome' = "ok"
                        /\ conversation_state' =
                               conversation_state \o <<user, Message("assistant", response)>>
                        /\ chatbot_interface' = Append(chatbot_interface, <<text2, response>>)
                        /\ ret' = ChatReturn(chatbot_interface', conversation_state')
        /\ UNCHANGED << globals, chat_model_state, gen_text, rows, normaliser_choice,
                        remove_silence, speech_types, segments, seg_idx,
                        generated_audio_segments >>

\* generate_audio_response, lines 335-351, the handler .then() chains to
\* process_audio_input whether that one raised or not; the last handler of
\* the chain only empties the input component
GenerateAudioResponse(ref_audio, ref_text, rs) ==
    LET history == chatbot_interface
        last_ai_response == history[Len(history)][2]
    IN  /\ pc = "then"
        /\ pc' = "idle"
        /\ handler' = "generate_audio_response"
        /\ arg' = <<history, ref_audio, ref_text>>
        /\ IF history = <<>> \/ ref_audio = <<>> \/ last_ai_response = <<>>
           THEN /\ outcome' = "ok"
                /\ ret' = NoneAudio
                /\ messages' = <<>>
                /\ infer_calls' = <<>>
                /\ engine_calls' = <<>>
                /\ loads' = <<>>
                /\ UNCHANGED globals
           ELSE \E r \in {Infer(ref_audio, ref_text, last_ai_response, tts_model_choice, rs,
                                "0.15", "print", G)} :
                /\ outcome' = IF r.exc = "none" THEN "ok" ELSE r.exc
                /\ ret' = IF r.exc = "none"
                          THEN [kind |-> "chat_audio", audio_result |-> r.audio_out,
                                ref_text |-> r.ref_text]
                          ELSE NoReturn
                /\ messages' = r.msgs
                /\ infer_calls' = <<Call(ref_audio, ref_text, last_ai_response, tts_model_choice)>>
                /\ engine_calls' = r.engine
                /\ loads' = r.loads
                /\ SetGlobals(r.g)
                /\ UNCHANGED << tts_model_choice, last_used_custom >>
        /\ UNCHANGED << chat, gen_text, rows, normaliser_choice, remove_silence,
                        speech_types, segments, seg_idx, generated_audio_segments >>

\* a transcript that keeps what it held and ends with the new system prompt
AppendSystemPrompt(new_prompt) ==
    Append(conversation_state, Message("system", new_prompt))

\* the transcript update_system_prompt returns, line 364
NewConvState(new_prompt) == <<Message("system", new_prompt)>>

\* what the two resetting handlers leave behind
ResetChat(h, a, conv_state) ==
    /\ pc \in {"idle", "then"}
    /\ handler' = h
    /\ arg' = a
    /\ outcome' = "ok"
    /\ ret' = [kind |-> "reset", history |-> <<>>, conv_state |-> conv_state]
    /\ chatbot_interface' = <<>>
    /\ conversation_state' = conv_state
    /\ messages' = <<>>
    /\ infer_calls' = <<>>
    /\ engine_calls' = <<>>
    /\ loads' = <<>>
    /\ UNCHANGED << globals, locals, chat_model_state >>

\* clear_conversation, lines 354-360
ClearConversation ==
    ResetChat("clear_conversation", <<>>, <<Message("system", DefaultPrompt)>>)

\* update_system_prompt, lines 363-365
UpdateSystemPrompt(new_prompt) ==
    ResetChat("update_system_prompt", <<new_prompt>>, NewConvState(new_prompt))

\* the process with the voice chat in use, F5-TTS or E2-TTS chosen
InitChatSession ==
    /\ InitGlobals
    /\ last_used_custom = NoFile
    /\ InitTrace
    /\ IdleLocals
    /\ InitChat

NextChat ==
    \/ LoadChatModel
    \/ \E a \in ChatAudioInputs, t \in ChatTextInputs : ProcessAudioInput(a, t)
    \/ \E a \in RefAudioInputs, t \in RefTextInputs : GenerateAudioResponse(a, t, TRUE)
    \/ ClearConversation
    \/ \E p \in PromptInputs : UpdateSystemPrompt(p)
    \/ \E c \in {DEFAULT_TTS_MODEL, "E2-TTS"} : SwitchTtsModel(c)

SpecChat == InitChatSession /\ [][NextChat]_vars

----------------------------------------------------------------------------
(* The parser's claims, under SpecParse *)

\* a match of \{(.*?)\} that begins at i ends at j
Closes(s, i, j) ==
    /\ i < j
    /\ s[i] = "{"
    /\ s[j] = "}"
    /\ \A k \in (i + 1)..(j - 1) : s[k] \notin {"}", "\n"}

ClosePairs(s) == {m \in (1..Len(s)) \X (1..Len(s)) : Closes(s, m[1], m[2])}

\* the {label} markers of a script: matches that do not overlap, such that
\* every place a match could begin is the start of a marker or lies inside one
MarkerSet(s) ==
    CHOOSE M \in SUBSET ClosePairs(s) :
        /\ \A m \in M, n \in M : m # n => (m[2] < n[1] \/ n[2] < m[1])
        /\ \A c \in ClosePairs(s) : c \in M \/ \E m \in M : m[1] < c[1] /\ c[1] <= m[2]

\* the t-th marker from the left
NthMarker(M, t) == CHOOSE m \in M : Cardinality({x \in M : x[1] < m[1]}) = t - 1

\* the segments the claim describes: one per text span between markers, in
\* order, under the label before it, the blank spans left out
ExpectedSegments(s) ==
    LET M == MarkerSet(s)
        k == Cardinality(M)
        from(t) == IF t = 1 THEN 1 ELSE NthMarker(M, t - 1)[2] + 1
        to(t) == IF t = k + 1 THEN Len(s) ELSE NthMarker(M, t)[1] - 1
        label(t) == SubSeq(s, NthMarker(M, t)[1] + 1, NthMarker(M, t)[2] - 1)
        spans == [t \in 1..(k + 1) |->
                    [style |-> IF t = 1 THEN <<"Regular">> ELSE Strip(label(t - 1)),
                     text |-> Strip(SubSeq(s, from(t), to(t)))]]
    IN  SelectSeq(spans, LAMBDA c : c.text # <<>>)

Balanced(s) ==
    LET depth(n) == Cardinality({i \in 1..n : s[i] = "{"}) - Cardinality({i \in 1..n : s[i] = "}"})
    IN  /\ \A n \in 1..Len(s) : depth(n) \in {0, 1}
        /\ depth(Len(s)) = 0

\* the labels of a balanced script, braces included
BracePairs(s) ==
    {m \in (1..Len(s)) \X (1..Len(s)) :
        /\ m[1] < m[2]
        /\ s[m[1]] = "{"
        /\ s[m[2]] = "}"
        /\ \A k \in (m[1] + 1)..(m[2] - 1) : s[k] \notin {"{", "}"}}

InLabel(s, p) == \E m \in BracePairs(s) : m[1] <= p /\ p <= m[2]

\* the text content of a script: what is left when the labels are taken out
TextContent(s) ==
    LET idx == SelectSeq([i \in 1..Len(s) |-> i], LAMBDA i : ~InLabel(s, i))
    IN  [n \in 1..Len(idx) |-> s[idx[n]]]

\* the text content, each span between labels stripped of the white space at
\* its two ends
RECURSIVE StrippedContent(_, _, _)
StrippedContent(s, i, span) ==
    IF i > Len(s) THEN Strip(span)
    ELSE IF InLabel(s, i) THEN Strip(span) \o StrippedContent(s, i + 1, <<>>)
    ELSE StrippedContent(s, i + 1, Append(span, s[i]))

LabelsOnOneLine(s) == \A m \in BracePairs(s) : \A k \in m[1]..m[2] : s[k] # "\n"

RECURSIVE JoinTexts(_)
JoinTexts(segs) == IF segs = <<>> THEN <<>> ELSE Head(segs).text \o JoinTexts(Tail(segs))

\* C2 as stated: for a script with balanced markers, the segment texts joined
\* in order are the text content of the script, labels excluded
C2_RejoinIsTextContent ==
    (pc = "parsed" /\ Balanced(gen_text)) => JoinTexts(segments) = TextContent(gen_text)

\* C2 as amended: for a script with balanced markers none of which holds a
\* line break, the segment texts joined in order are the text content with
\* the white space at both ends of every span between labels removed
C2_RejoinIsStrippedContent ==
    (pc = "parsed" /\ Balanced(gen_text) /\ LabelsOnOneLine(gen_text))
        => JoinTexts(segments) = StrippedContent(gen_text, 1, <<>>)

\* a balanced script with a label between two texts has been parsed, and the
\* joined texts lack white space the text content has
C2_Witness ==
    /\ pc = "parsed"
    /\ Balanced(gen_text)
    /\ LabelsOnOneLine(gen_text)
    /\ BracePairs(gen_text) # {}
    /\ Len(segments) = 2
    /\ JoinTexts(segments) # TextContent(gen_text)

\* no match of the pattern anywhere in s
NoMarker(s) ==
    ~ \E i \in 1..Len(s), j \in 1..Len(s) :
        i < j /\ s[i] = "{" /\ s[j] = "}" /\ \A k \in (i + 1)..(j - 1) : s[k] # "\n"

\* C3 as stated: a script with no markers yields exactly one segment, tagged
\* with the default style
C3_OneDefaultSegment ==
    (pc = "parsed" /\ NoMarker(gen_text))
        => (Len(segments) = 1 /\ segments[1].style = <<"Regular">>)

\* C3 as amended: a script with no markers yields exactly one segment, tagged
\* with the default style, when it holds anything but white space, and no
\* segment when it does not
C3_OneDefaultSegmentUnlessBlank ==
    (pc = "parsed" /\ NoMarker(gen_text))
        => IF \E i \in 1..Len(gen_text) : gen_text[i] \notin WS
           THEN Len(segments) = 1 /\ segments[1].style = <<"Regular">>
           ELSE segments = <<>>

\* a script that holds a brace but no marker has been parsed into one segment
C3_Witness ==
    /\ pc = "parsed"
    /\ NoMarker(gen_text)
    /\ \E i \in 1..Len(gen_text) : gen_text[i] = "{"
    /\ Len(segments) = 1

----------------------------------------------------------------------------
(* The claims of generate_multistyle_speech, under SpecMulti *)

\* a row gives the style a reference audio
HasAudioRow(style) ==
    \E i \in 1..Len(rows) :
        rows[i].name = style /\ rows[i].name # <<>> /\ rows[i].audio # <<>>

\* a row that lacks its name or its audio, which the style names by its place
PlaceholderRow(style) ==
    \E i \in 1..Len(rows) :
        style = Placeholder(i - 1) /\ (rows[i].name = <<>> \/ rows[i].audio = <<>>)

\* the style is a key of the speech types the rows define
DefinedType(style) == HasAudioRow(style) \/ PlaceholderRow(style)

\* the reference audio of a style some row gives one: the last such row's
AudioOfRows(style) ==
    LET has(i) == rows[i].name = style /\ rows[i].audio # <<>>
    IN  rows[CHOOSE i \in 1..Len(rows) :
                 has(i) /\ \A j \in (i + 1)..Len(rows) : ~has(j)].audio

\* a warning about the style was raised
WarnedAbout(style) ==
    \E n \in 1..Len(messages) : messages[n].kind = "warning" /\ messages[n].arg = style

\* the request returned no audio
ReturnedNone == outcome = "ok" /\ ret.kind = "multistyle" /\ ret.audio = NoneAudio

\* C4: when the request has ended, every segment whose style is not a key of
\* the speech types has been synthesized from the reference audio of
\* "Regular", with a warning about the style; and when "Regular" is no
\* speech type either, the request has returned None with a warning, and
\* has raised nothing
C4_UndefinedStyleUsesRegular ==
    pc = "done" =>
        \A k \in 1..Len(segments) :
            ~DefinedType(segments[k].style) =>
                IF HasAudioRow(Regular)
                THEN /\ WarnedAbout(segments[k].style)
                     /\ k <= Len(generated_audio_segments)
                     /\ generated_audio_segments[k][1].ref_audio
                            = PreRefAudio(AudioOfRows(Regular))
                ELSE /\ ReturnedNone
                     /\ \E n \in 1..Len(messages) : messages[n].kind = "warning"

\* the style has no matching reference audio: the row of that name has no
\* audio, or the style resolves to the entry of a row that lacks its audio
LacksAudio(style) ==
    /\ ~HasAudioRow(style)
    /\ \/ \E i \in 1..Len(rows) : rows[i].name = style /\ rows[i].name # <<>>
       \/ PlaceholderRow(style)

\* C5: when the request has ended, and it came to a segment whose style has
\* no matching reference audio, it has returned None with a warning for that
\* style, however many segments were synthesized before
C5_MissingAudioAborts ==
    pc = "done" =>
        \A k \in 1..Len(segments) :
            (k <= seg_idx + 1 /\ LacksAudio(segments[k].style)) =>
                (ReturnedNone /\ WarnedAbout(segments[k].style))

\* the speech type the style resolves to has reference audio
ResolvedHasAudio(style) ==
    HasAudioRow(style) \/ (~PlaceholderRow(style) /\ HasAudioRow(Regular))

\* the reference audio the style resolves to
ResolvedAudio(style) ==
    IF HasAudioRow(style) THEN AudioOfRows(style) ELSE AudioOfRows(Regular)

\* C6: when every segment's resolved speech type has reference audio, the
\* request ends with infer called exactly once per segment, in segment
\* order, and returns the per-segment waveforms concatenated in that order
C6_OncePerSegmentInOrder ==
    (pc = "done" /\ \A k \in 1..Len(segments) : ResolvedHasAudio(segments[k].style)) =>
        /\ outcome = "ok"
        /\ Len(infer_calls) = Len(segments)
        /\ Len(generated_audio_segments) = Len(segments)
        /\ \A k \in 1..Len(segments) :
              /\ infer_calls[k].ref_audio = ResolvedAudio(segments[k].style)
              /\ infer_calls[k].gen_text
                     = MultiProcessedText(normaliser_choice, segments[k].text)
              /\ generated_audio_segments[k][1].gen_text = infer_calls[k].gen_text
        /\ ret.kind = "multistyle"
        /\ ret.audio = IF segments = <<>> THEN NoneAudio
                       ELSE [kind |-> "audio", wave |-> Concatenate(generated_audio_segments)]

----------------------------------------------------------------------------
(* The claims of infer and of the model selector, under Spec *)

\* the text is empty or holds white space only
OnlyWhiteSpace(text) == \A i \in 1..Len(text) : text[i] \in WS

\* the call of infer the step makes came without reference audio, or with a
\* generation text that is empty or white space
RejectedCall ==
    /\ handler' = "basic_tts"
    /\ \/ infer_calls'[1].ref_audio = <<>>
       \/ OnlyWhiteSpace(infer_calls'[1].gen_text)

\* C7: infer called without reference audio, or with a generation text that
\* is empty or white space only, raises a warning, yields no audio and no
\* spectrogram, calls no synthesis and loads no model, and returns without
\* an exception the reference text it was given
C7_InferRejectsWithoutWork ==
    [][RejectedCall =>
          /\ outcome' = "ok"
          /\ ret' = [kind |-> "basic_tts", audio_out |-> GrUpdate, spectrogram |-> GrUpdate,
                     ref_text |-> infer_calls'[1].ref_text]
          /\ \E n \in 1..Len(messages') : messages'[n].kind = "warning"
          /\ engine_calls' = <<>>
          /\ loads' = <<>>
          /\ UNCHANGED << F5TTS_ema_model, E2TTS_ema_model, custom_ema_model,
                          pre_custom_path >>]_vars

\* infer was called with reference audio and a text of one blank while
\* E2-TTS was chosen and not yet loaded: it warned, and loaded nothing
C7_Witness ==
    /\ handler = "basic_tts"
    /\ infer_calls[1].ref_audio = <<"w">>
    /\ infer_calls[1].gen_text = <<" ">>
    /\ tts_model_choice = Builtin("E2-TTS")
    /\ E2TTS_ema_model = NoModel
    /\ engine_calls = <<>>
    /\ \E n \in 1..Len(messages) : messages[n].kind = "warning"

\* the handle the chosen variant has
HandleOf(choice) ==
    IF choice.name = DEFAULT_TTS_MODEL THEN F5TTS_ema_model
    ELSE IF choice.name = "E2-TTS" THEN E2TTS_ema_model
    ELSE custom_ema_model

\* what loading the chosen variant yields
LoadOf(choice) ==
    IF choice.name = DEFAULT_TTS_MODEL THEN load_f5tts
    ELSE IF choice.name = "E2-TTS" THEN load_e2tts
    ELSE load_custom(choice.ckpt, choice.vocab, choice.cfg)

\* C8 as stated: a variant's checkpoint is loaded only on its first use by
\* infer, so none is loaded before the first request and every load is made
\* by infer for the chosen variant while that variant has no handle; and it
\* is cached from then on, so no step loads again a checkpoint the process
\* holds
C8_LoadedLazilyAndCached ==
    [][/\ handler = "startup" =>
              /\ F5TTS_ema_model = NoModel
              /\ E2TTS_ema_model = NoModel
              /\ custom_ema_model = NoModel
       /\ \A n \in 1..Len(loads') :
              /\ handler' = "basic_tts"
              /\ loads'[n] = LoadOf(tts_model_choice)
              /\ HandleOf(tts_model_choice) # LoadOf(tts_model_choice)
       /\ F5TTS_ema_model # NoModel => F5TTS_ema_model' = F5TTS_ema_model
       /\ E2TTS_ema_model # NoModel => E2TTS_ema_model' = E2TTS_ema_model]_vars

\* C8 as amended: the F5-TTS checkpoint is loaded when the module is
\* imported, and E2-TTS with it in Spaces, and neither is loaded again;
\* outside Spaces E2-TTS is loaded by the first infer that uses it and kept;
\* a custom checkpoint is loaded by infer exactly when the chosen checkpoint
\* path differs from the path of the last custom load, otherwise the handle
\* of that load is used
C8_LoadedAtImportOrOnUse ==
    [][/\ F5TTS_ema_model = load_f5tts
       /\ F5TTS_ema_model' = F5TTS_ema_model
       /\ USING_SPACES => E2TTS_ema_model = load_e2tts
       /\ E2TTS_ema_model # NoModel => E2TTS_ema_model' = E2TTS_ema_model
       /\ \A n \in 1..Len(loads') :
              /\ handler' = "basic_tts"
              /\ loads'[n] = LoadOf(tts_model_choice)
              /\ IF tts_model_choice.name = "E2-TTS"
                 THEN E2TTS_ema_model = NoModel
                 ELSE /\ tts_model_choice.name = "Custom"
                      /\ pre_custom_path # tts_model_choice.ckpt
                      /\ pre_custom_path' = tts_model_choice.ckpt
       /\ (/\ handler' = "basic_tts"
           /\ tts_model_choice.name = "Custom"
           /\ pre_custom_path = tts_model_choice.ckpt) =>
              /\ loads' = <<>>
              /\ custom_ema_model' = custom_ema_model
              /\ engine_calls' # <<>> => engine_calls'[1].model = custom_ema_model]_vars

\* infer has synthesized with the custom variant from the handle of an
\* earlier load, loading nothing
C8_Witness ==
    /\ handler = "basic_tts"
    /\ tts_model_choice.name = "Custom"
    /\ pre_custom_path = tts_model_choice.ckpt
    /\ engine_calls # <<>>
    /\ engine_calls[1].model = custom_ema_model
    /\ loads = <<>>

\* C9: when the record on disk is the one a successful set_custom_model(ckpt,
\* vocab, cfg) wrote and a built-in variant is chosen, switching to "Custom"
\* succeeds, shows ckpt, vocab and cfg in the three fields, and makes
\* tts_model_choice ["Custom", ckpt, vocab, parsed cfg]
C9_SwitchBackRestoresRecord ==
    [][\A i \in CustomInputs :
          (/\ IsJson(i[3])
           /\ last_used_custom = FileOf(RecordText(i[1], i[2], i[3]))
           /\ tts_model_choice.name # "Custom"
           /\ handler' = "switch_tts_model"
           /\ arg' = <<"Custom">>) =>
              /\ outcome' = "ok"
              /\ ret' = [kind |-> "fields", visible |-> TRUE, ckpt |-> i[1],
                         vocab |-> i[2], cfg |-> i[3]]
              /\ tts_model_choice' = Custom(i[1], i[2], JsonLoads(i[3]))]_vars

\* the persisted record is missing, or corrupt: fewer than three lines, or a
\* third line that is no JSON
MissingOrCorrupt(file) ==
    \/ ~file.exists
    \/ LET lines == FileLinesFrom(file.text, <<>>)
       IN  Len(lines) < 3 \/ ~IsJson(lines[3])

\* C10: when the persisted record is missing or corrupt, switching to
\* "Custom" does not fail: it shows the default checkpoint path, vocabulary
\* path and config and chooses them
C10_CorruptRecordFallsBack ==
    [][(/\ MissingOrCorrupt(last_used_custom)
        /\ handler' = "switch_tts_model"
        /\ arg' = <<"Custom">>) =>
           /\ outcome' = "ok"
           /\ ret' = [kind |-> "fields", visible |-> TRUE,
                      ckpt |-> DEFAULT_TTS_MODEL_CFG[1],
                      vocab |-> DEFAULT_TTS_MODEL_CFG[2],
                      cfg |-> DEFAULT_TTS_MODEL_CFG[3]]
           /\ tts_model_choice' = Custom(DEFAULT_TTS_MODEL_CFG[1], DEFAULT_TTS_MODEL_CFG[2],
                                         JsonLoads(DEFAULT_TTS_MODEL_CFG[3]))]_vars

\* the text is a JSON object: two braces around nothing or around one of the
\* member lists, with white space anywhere between
WellFormedConfig(s) ==
    \E m \in {<<>>} \cup {<<x>> : x \in Members} :
        RemoveWs(s) = <<"{">> \o m \o <<"}">>

\* C11: set_custom_model given a config that is no valid JSON raises the
\* error to its caller and leaves tts_model_choice and the persisted record
\* as they were
C11_BadConfigChangesNothing ==
    [][(handler' = "set_custom_model" /\ ~WellFormedConfig(arg'[3])) =>
          /\ outcome' = "JSONDecodeError"
          /\ tts_model_choice' = tts_model_choice
          /\ last_used_custom' = last_used_custom]_vars

\* set_custom_model has been given a config that is no JSON while a custom
\* model with another vocabulary was chosen and recorded: both are kept
C11_Witness ==
    /\ handler = "set_custom_model"
    /\ arg[3] = <<"{">>
    /\ outcome = "JSONDecodeError"
    /\ tts_model_choice.name = "Custom"
    /\ tts_model_choice.vocab = <<"v2">>
    /\ last_used_custom = FileOf(RecordText(<<"m1">>, <<"v2">>, <<"{", "e", "}">>))

\* the chosen normaliser does not normalise: none is chosen, its file is
\* missing, or its module has no normalize
DegradedNormaliser(choice) == choice \in {"None", "missing", "nofunc"}

\* a diagnostic about the normaliser's missing file or function was emitted
NormaliserDiagnostic(msgs) ==
    \E n \in 1..Len(msgs) :
        /\ msgs[n].kind = "print"
        /\ msgs[n].text \in {"normaliser.py not found, using the original text",
                             "normaliser.py has no normalize, using the original text"}

\* C12, for generate_multistyle_speech: when the chosen normaliser's file is
\* missing or its module has no normalize (or the choice is "None"), a
\* request that has returned handed every segment's text to infer as it was,
\* and emitted a diagnostic for the missing file or function
C12_DegradedNormaliserIsIdentity ==
    (pc = "done" /\ outcome = "ok" /\ DegradedNormaliser(normaliser_choice)) =>
        /\ \A k \in 1..Len(infer_calls) : infer_calls[k].gen_text = segments[k].text
        /\ normaliser_choice # "None" => NormaliserDiagnostic(messages)

----------------------------------------------------------------------------
(* The claims of the voice chat, under SpecChat *)

\* the chat event the handler was started for came with no audio and with a
\* text that is empty or white space
EmptyChatInput(h, a) ==
    h = "process_audio_input" /\ a[1] = <<>> /\ OnlyWhiteSpace(a[2])

\* C13: a chat event with no audio and an empty or white-space text appends
\* no message to the transcript or the chat window, so that no reply is
\* generated, and the generate_audio_response chained to it synthesizes no
\* speech
C13_EmptyInputNoTurn ==
    [][/\ EmptyChatInput(handler', arg') =>
              /\ conversation_state' = conversation_state
              /\ chatbot_interface' = chatbot_interface
       /\ (EmptyChatInput(handler, arg) /\ handler' = "generate_audio_response") =>
              /\ infer_calls' = <<>>
              /\ engine_calls' = <<>>]_vars

\* C14: whatever the conversation was, clear_conversation and
\* update_system_prompt each leave a transcript of exactly one message, of
\* role system, and an empty chat window
C14_ResetLeavesOneSystemMessage ==
    [][handler' \in {"clear_conversation", "update_system_prompt"} =>
          /\ Len(conversation_state') = 1
          /\ conversation_state'[1].role = "system"
          /\ chatbot_interface' = <<>>
          /\ ret'.history = <<>>
          /\ ret'.conv_state = conversation_state']_vars

\* the system prompt was changed in the middle of a chat event, and the
\* transcript is that prompt alone
C14_Witness ==
    /\ handler = "update_system_prompt"
    /\ arg = << <<"p1">> >>
    /\ pc = "then"
    /\ conversation_state = <<Message("system", <<"p1">>)>>
    /\ chatbot_interface = <<>>

\* a transcript is well formed: one system message, then user and assistant
\* messages in turn, every user message followed by its reply
WellFormedTranscript(conv) ==
    /\ Len(conv) % 2 = 1
    /\ conv[1].role = "system"
    /\ \A i \in 2..Len(conv) :
           conv[i].role = IF i % 2 = 0 THEN "user" ELSE "assistant"

\* C15: after any sequence of process_audio_input, clear_conversation and
\* update_system_prompt the transcript is one system message followed by
\* user and assistant messages in turn, and process_audio_input only
\* appends to it
C15_TranscriptAlternates ==
    [][/\ WellFormedTranscript(conversation_state')
       /\ handler' = "process_audio_input" =>
              /\ Len(conversation_state') >= Len(conversation_state)
              /\ SubSeq(conversation_state', 1, Len(conversation_state))
                     = conversation_state]_vars

----------------------------------------------------------------------------
(* Further claims of the model selector, under Spec *)

\* C16: whenever infer synthesizes with a custom model choice, the handle it
\* hands to the synthesis was loaded from exactly the checkpoint path, the
\* vocabulary path and the config of that choice
C16_CustomHandleMatchesChoice ==
    (handler = "basic_tts" /\ tts_model_choice.name = "Custom" /\ engine_calls # <<>>) =>
        engine_calls[1].model
            = load_custom(tts_model_choice.ckpt, tts_model_choice.vocab, tts_model_choice.cfg)

\* C17: when the last switch_tts_model selected a built-in variant, a
\* set_custom_model event handled after it leaves tts_model_choice that
\* variant, and a synthesis that follows uses it
C17_BuiltinSelectionStands ==
    [][(/\ handler = "switch_tts_model"
        /\ outcome = "ok"
        /\ arg[1] # "Custom"
        /\ handler' = "set_custom_model") =>
           tts_model_choice' = Builtin(arg[1])]_vars

----------------------------------------------------------------------------
(* A further claim of generate_multistyle_speech, under SpecMulti *)

\* the reference text that belongs to row i: the one typed into it, or the
\* transcript of its audio that infer put in its place
RowRefTexts(i) ==
    {rows[i].ref_text} \cup
    (IF rows[i].audio # <<>> THEN {PreRefText(rows[i].audio, rows[i].ref_text)} ELSE {})

\* C18: whatever names and audios the rows hold, rows of one name among
\* them, and whatever the script, a request that returns returns the audio
\* result followed by one reference text per row, the text at place i that
\* of row i
C18_OneRefTextPerRow ==
    (pc = "done" /\ outcome = "ok") =>
        /\ ret.kind = "multistyle"
        /\ Len(ret.ref_texts) = MaxSpeechTypes
        /\ \A i \in 1..MaxSpeechTypes : ret.ref_texts[i] \in RowRefTexts(i)

====
